---- MODULE Spec2Model ----
(***************************************************************************)
(* pop-launcher plugins: the request/response state machine of the plugin  *)
(* binaries (src/bin/*.rs) over the shared trait of src/lib.rs.            *)
(*                                                                         *)
(* One plugin process serves one session.  `plugin` names the binary that  *)
(* is running; a handler runs to completion before the next request is     *)
(* read, so every request is one action.  `lastReq`, `resp` and `calls`    *)
(* record the request just served, what it wrote to stdout and which       *)
(* collaborator calls it made, with their outcomes.  `commands` and        *)
(* `projects` are the lists two of the plugins load when they start.       *)
(* `pending` is the number of lines the host has yet to send before it     *)
(* closes the stream, where that is fixed in advance.  `shown` holds the    *)
(* results handed to the Responder since the last Clear handed to it, and  *)
(* `lost` the position, among the responses of the request just served, of *)
(* the one whose write or flush failed (0: none).                          *)
(*                                                                         *)
(* Strings are sequences of one-character strings, so that prefix tests,   *)
(* trimming, concatenation and the subsequence match are computed.         *)
(***************************************************************************)
EXTENDS Integers, Sequences, FiniteSets, TLC

VARIABLES plugin, session, items, resp, calls, live, lastReq,
          commands, projects, pending, shown, lost

vars == <<plugin, session, items, resp, calls, live, lastReq,
          commands, projects, pending, shown, lost>>

----------------------------------------------------------------------------
(* Strings *)

Uppers == <<"A", "B", "C", "D", "E", "F", "G", "H", "I", "J", "K", "L", "M",
            "N", "O", "P", "Q", "R", "S", "T", "U", "V", "W", "X", "Y", "Z">>
Lowers == <<"a", "b", "c", "d", "e", "f", "g", "h", "i", "j", "k", "l", "m",
            "n", "o", "p", "q", "r", "s", "t", "u", "v", "w", "x", "y", "z">>
Digits == {"0", "1", "2", "3", "4", "5", "6", "7", "8", "9"}

IsUpper(c) == \E i \in DOMAIN Uppers : Uppers[i] = c
IsLower(c) == \E i \in DOMAIN Lowers : Lowers[i] = c

\* char::to_ascii_lowercase
ToLower(c) ==
    IF IsUpper(c) THEN Lowers[CHOOSE i \in DOMAIN Uppers : Uppers[i] = c] ELSE c

\* str::starts_with
StartsWith(s, pre) ==
    /\ Len(pre) <= Len(s)
    /\ SubSeq(s, 1, Len(pre)) = pre

\* the Some(..) payload of str::strip_prefix; used only where StartsWith holds
StripPrefix(s, pre) == SubSeq(s, Len(pre) + 1, Len(s))

\* str::trim_start: drops the leading white space
RECURSIVE TrimStart(_)
TrimStart(s) ==
    IF s # <<>> /\ Head(s) = " " THEN TrimStart(Tail(s)) ELSE s

----------------------------------------------------------------------------
(* fuzzy_matcher::skim::SkimMatcherV2::default().fuzzy(choice, pattern, _) *)
(* as the plugins call it: smart case, a subsequence test, and a score.   *)

\* SkimScoreConfig::default()
SkimScoreConfig ==
    [score_match |-> 16, gap_start |-> -3, gap_extension |-> -1,
     bonus_first_char_multiplier |-> 2, bonus_head |-> 8, bonus_break |-> 7,
     bonus_camel |-> 6, bonus_consecutive |-> 4, penalty_case_mismatch |-> -2,
     min_score |-> -100000]

\* CaseMatching::Smart: case matters as soon as the pattern has an upper-case letter
IsCaseSensitive(pattern) == \E i \in DOMAIN pattern : IsUpper(pattern[i])

CharEqual(c, p, caseSensitive) ==
    IF caseSensitive THEN c = p ELSE ToLower(c) = ToLower(p)

\* cheap_matches: the pattern's characters occur in the choice, in order
RECURSIVE IsSubsequence(_, _, _)
IsSubsequence(choice, pattern, cs) ==
    IF pattern = <<>> THEN TRUE
    ELSE IF choice = <<>> THEN FALSE
    ELSE IF CharEqual(Head(choice), Head(pattern), cs)
         THEN IsSubsequence(Tail(choice), Tail(pattern), cs)
         ELSE IsSubsequence(Tail(choice), pattern, cs)

\* fuzzy(..).is_some(): an empty pattern matches every choice
FuzzyMatches(choice, pattern) ==
    IsSubsequence(choice, pattern, IsCaseSensitive(pattern))

CharTypeOf(c) ==
    IF c = "" THEN "Empty"
    ELSE IF c \in {" ", "/"} THEN "HardSep"
    ELSE IF c \in {"_", "-", ".", ":"} THEN "SoftSep"
    ELSE IF c \in Digits THEN "Number"
    ELSE IF IsUpper(c) THEN "Upper"
    ELSE "Lower"

\* in_place_bonus: what a match at this position earns from its left neighbour
InPlaceBonus(prev, c) ==
    LET pt == CharTypeOf(prev)
        ct == CharTypeOf(c)
    IN  IF pt \in {"Empty", "HardSep"} THEN SkimScoreConfig.bonus_head
        ELSE IF pt = "SoftSep" THEN SkimScoreConfig.bonus_break
        ELSE IF pt \in {"Lower", "Number"} /\ ct = "Upper" THEN SkimScoreConfig.bonus_camel
        ELSE 0

\* build_in_place_bonus: the first character's bonus is multiplied
BonusAt(choice, j) ==
    IF j = 1
    THEN InPlaceBonus("", choice[1]) * SkimScoreConfig.bonus_first_char_multiplier
    ELSE InPlaceBonus(choice[j - 1], choice[j])

\* calculate_match_score
MatchScore(c, p, cs) ==
    IF ~cs /\ c # p
    THEN SkimScoreConfig.score_match + SkimScoreConfig.penalty_case_mismatch
    ELSE SkimScoreConfig.score_match

Max2(a, b) == IF a >= b THEN a ELSE b

\* build_score_matrix and the maximum of its last row.  cell[i][j] is
\* <<m_score, p_score, last_bonus>> for pattern[1..i] against choice[1..j].
FuzzyScore(choice, pattern) ==
    LET cs == IsCaseSensitive(pattern)
        n == Len(choice)
        m == Len(pattern)
        MIN == SkimScoreConfig.min_score
        cell[i \in 0..m, j \in 0..n] ==
            IF i = 0 THEN <<MIN, 0, 0>>
            ELSE IF j = 0 THEN <<MIN, MIN, 0>>
            ELSE
              LET prev == cell[i - 1, j - 1]
                  last == cell[i, j - 1]
                  inPlace == BonusAt(choice, j)
                  consecutive ==
                      Max2(prev[3], Max2(inPlace, SkimScoreConfig.bonus_consecutive))
                  scoreMatch == prev[1] + consecutive
                  scoreSkip == prev[2] + inPlace
                  hit == CharEqual(choice[j], pattern[i], cs)
                  mScore ==
                      IF hit /\ Max2(prev[1], prev[2]) > MIN \div 2
                      THEN Max2(scoreMatch, scoreSkip) + MatchScore(choice[j], pattern[i], cs)
                      ELSE MIN
                  pScore ==
                      IF Max2(last[1], last[2]) > MIN \div 2
                      THEN Max2(SkimScoreConfig.gap_start + SkimScoreConfig.gap_extension
                                    + last[1],
                                SkimScoreConfig.gap_extension + last[2])
                      ELSE MIN
              IN  <<mScore, pScore, IF hit THEN consecutive ELSE 0>>
        RECURSIVE Best(_)
        Best(j) == IF j = 0 THEN MIN ELSE Max2(cell[m, j][1], Best(j - 1))
    IN  IF m = 0 THEN 0 ELSE Best(n)

----------------------------------------------------------------------------
(* Responses (pop_launcher::PluginResponse) and the Responder *)

Clear == [type |-> "Clear"]
Finished == [type |-> "Finished"]
Close == [type |-> "Close"]
Fill(text) == [type |-> "Fill", text |-> text]
AppendResult(result) == [type |-> "Append", result |-> result]

\* The plugin as a handler sees and leaves it: its list, what it has written
\* to stdout and which collaborator calls it has made while serving the request.
\* `panicked`: an unwrap() of the handler failed and the process is gone.
\* `wfail`: which of the writes to stdout will fail while the request is served
\* (0: none); `lost`: the response whose write has failed.
Fresh(its) ==
    [items |-> its, resp |-> <<>>, calls |-> <<>>, panicked |-> FALSE,
     wfail |-> 0, lost |-> 0]

\* stdout as this request finds it
Piped(st, wfail) == [st EXCEPT !.wfail = wfail]

\* mutant: after a failed write nothing more is written
RespondStopsAfterFailure(st, response) ==
    IF st.lost # 0 THEN st
    ELSE [st EXCEPT !.resp = Append(@, response),
                    !.lost = IF Len(st.resp) + 1 = st.wfail THEN st.wfail ELSE @]

\* Responder::respond: one line handed to stdout; when write_all or flush
\* fails the line is lost, a warning is logged and respond returns as ever
Respond(st, response) ==
    [st EXCEPT !.resp = Append(@, response),
               !.lost = IF Len(st.resp) + 1 = st.wfail THEN st.wfail ELSE @]

\* a call into an external collaborator, with its outcome
Call(st, call) == [st EXCEPT !.calls = Append(@, call)]

----------------------------------------------------------------------------
(* The media-control plugin, src/bin/mpris.rs *)

MPRIS_PREFIX == <<"m", "e", "d", "i", "a">>

\* mutant: the prefix is tested without its trailing space
MprisPrefixNoSpace == MPRIS_PREFIX

\* format!("{PLUGIN_PREFIX} ")
MprisPrefixSp == MPRIS_PREFIX \o <<" ">>

\* PlayerControls::iter
PlayerControlsIter == <<"VolumeUp", "VolumeDown", "Play", "Pause">>

\* impl From<&PlayerControls> for &'static str
ControlStr(action) ==
    CASE action = "VolumeUp" -> <<"V", "o", "l", "u", "m", "e", " ", "u", "p">>
      [] action = "VolumeDown" -> <<"V", "o", "l", "u", "m", "e", " ", "d", "o", "w", "n">>
      [] action = "Play" -> <<"P", "l", "a", "y">>
      [] action = "Pause" -> <<"P", "a", "u", "s", "e">>

\* mutant: every control is offered, matching or not
GetMatchesUnfiltered(query) == PlayerControlsIter

\* PlayerControls::get_matches: a filter over iter(), in iter()'s order
GetMatches(query) ==
    SelectSeq(PlayerControlsIter, LAMBDA action : FuzzyMatches(ControlStr(action), query))

\* The media players that can be on the bus, and mpris::Player::identity
Players == {1, 2, 3}
Identity(p) ==
    CASE p = 1 -> <<"S", "p", "o", "t", "i", "f", "y">>
      [] p = 2 -> <<"F", "i", "r", "e", "f", "o", "x">>
      [] p = 3 -> <<"S", "p", "o", "t", "i", "f", "y", " ", "V">>

\* what PlayerFinder::find_all can return: the live players, each once, in bus
\* order; at most MaxLive of them are running at a time
MaxLive == 2
LiveLists ==
    {l \in UNION {[1..n -> Players] : n \in 0..MaxLive} :
        \A i, j \in DOMAIN l : i # j => l[i] # l[j]}

\* Item::Player / Item::Action
PlayerItem(p) == [kind |-> "Player", player |-> p]
ActionItem(p, action) == [kind |-> "Action", player |-> p, action |-> action]

GetPlayerIcon(p) ==
    IF Identity(p) = <<"S", "p", "o", "t", "i", "f", "y">> THEN "spotify"
    ELSE "folder-music"

GetActionIcon(action) ==
    CASE action = "VolumeUp" -> "audio-volume-high"
      [] action = "VolumeDown" -> "audio-volume-low"
      [] action = "Play" -> "player_play"
      [] action = "Pause" -> "player_pause"

FormatPlayer(st, p) ==
    [id |-> Len(st.items), name |-> Identity(p), description |-> "Description",
     icon |-> GetPlayerIcon(p)]

\* mutant: ids count from one
FormatActionOneBased(st, action) ==
    [id |-> Len(st.items) + 1, name |-> ControlStr(action), description |-> "",
     icon |-> GetActionIcon(action)]

FormatAction(st, action) ==
    [id |-> Len(st.items), name |-> ControlStr(action), description |-> "",
     icon |-> GetActionIcon(action)]

\* mutant: the list is emptied but the host is not told
MprisClearSilent(st) == [st EXCEPT !.items = <<>>]

\* mutant: the host is told but the list is kept
MprisClearKeepItems(st) == Respond(st, Clear)

MprisClear(st) == Respond([st EXCEPT !.items = <<>>], Clear)

AddPlayer(st, p) ==
    LET sent == Respond(st, AppendResult(FormatPlayer(st, p)))
    IN  [sent EXCEPT !.items = Append(@, PlayerItem(p))]

AddAction(st, p, action) ==
    LET sent == Respond(st, AppendResult(FormatAction(st, action)))
    IN  [sent EXCEPT !.items = Append(@, ActionItem(p, action))]

\* get_all_players: find_all's players, or none when it fails
GetAllPlayers(ok) == IF ok THEN live ELSE <<>>

FindAllCall(ok) == [op |-> "find_all", ok |-> ok, players |-> GetAllPlayers(ok)]

\* mutant: the players of the pass before are matched, not those on the bus
GetPlayerMatchesCached(ok, query) ==
    SelectSeq([i \in DOMAIN items |-> items[i].player],
              LAMBDA p : FuzzyMatches(Identity(p), query))

\* get_player_matches, given the outcome of its find_all
GetPlayerMatches(ok, query) ==
    SelectSeq(GetAllPlayers(ok), LAMBDA p : FuzzyMatches(Identity(p), query))

\* PlayerFinder::find_by_name: the first live player of that identity
FindByName(name) ==
    LET named == SelectSeq(live, LAMBDA p : Identity(p) = name)
    IN  IF named = <<>> THEN 0 ELSE Head(named)

FindByNameCall(name, ok) ==
    [op |-> "find_by_name", name |-> name, ok |-> ok,
     player |-> IF ok THEN FindByName(name) ELSE 0]

\* the for loop of search's None arm
RECURSIVE AddPlayers(_, _)
AddPlayers(st, players) ==
    IF players = <<>> THEN st
    ELSE AddPlayers(AddPlayer(st, Head(players)), Tail(players))

\* the for loop of search's Some(player) arm, with its early return; k counts
\* the find_by_name calls and failAt names the one that fails (0: none)
RECURSIVE AddActions(_, _, _, _, _)
AddActions(st, player, actions, k, failAt) ==
    IF actions = <<>> THEN Respond(st, Finished)
    ELSE
      LET name == Identity(player)
          ok == k # failAt /\ FindByName(name) # 0
          called == Call(st, FindByNameCall(name, ok))
      IN  IF ~ok THEN Respond(called, Finished)
          ELSE AddActions(AddAction(called, FindByName(name), Head(actions)),
                          player, Tail(actions), k + 1, failAt)

\* MprisPlugin::search.  env: the outcomes of the collaborator calls
MprisSearch(st, input, env) ==
    LET cleared == MprisClear(st)
    IN  IF ~StartsWith(input, MprisPrefixSp) THEN Respond(cleared, Finished)
        ELSE
          LET rest == StripPrefix(input, MprisPrefixSp)
              listed == Call(cleared, FindAllCall(env.ok1))
              found == SelectSeq(GetAllPlayers(env.ok1),
                                 LAMBDA p : StartsWith(rest, Identity(p)))
          IN  IF found # <<>>
              THEN LET player == Head(found)
                       query == TrimStart(StripPrefix(rest, Identity(player)))
                   IN  AddActions(listed, player, GetMatches(query), 1, env.failAt)
              ELSE Respond(AddPlayers(Call(listed, FindAllCall(env.ok2)),
                                      GetPlayerMatches(env.ok2, rest)),
                           Finished)

\* mutant: the filled string lacks the plugin prefix
CompleteTargetNoPrefix(item) ==
    IF item.kind = "Player"
    THEN Identity(item.player) \o <<" ">>
    ELSE Identity(item.player) \o <<" ">> \o ControlStr(item.action)

\* the string complete fills in; used only for an id in range
CompleteTarget(item) ==
    IF item.kind = "Player"
    THEN MprisPrefixSp \o Identity(item.player) \o <<" ">>
    ELSE MprisPrefixSp \o Identity(item.player) \o <<" ">> \o ControlStr(item.action)

\* MprisPlugin::complete
MprisComplete(st, id, env) ==
    IF id >= Len(st.items) THEN st
    ELSE LET input == CompleteTarget(st.items[id + 1])
         IN  MprisSearch(Respond(st, Fill(input)), input, env)

\* Volumes are counted in twentieths: the 0.1 of activate is VolumeStep, and
\* 1.0 is ten steps.
VolumeStep == 2
FullVolume == 10 * VolumeStep

GetVolumeCall(p, ok, volume) == [op |-> "get_volume", player |-> p, ok |-> ok, volume |-> volume]
SetVolumeCall(p, ok, volume) == [op |-> "set_volume", player |-> p, ok |-> ok, volume |-> volume]

\* mutant: a volume step that went through closes the launcher
IncreaseVolumeCloses(st, p, increase, env) ==
    IF ~env.getOk THEN Call(st, GetVolumeCall(p, FALSE, 0))
    ELSE LET set == Call(Call(st, GetVolumeCall(p, TRUE, env.volume)),
                         SetVolumeCall(p, env.setOk, env.volume + increase))
         IN  IF env.setOk THEN Respond(set, Close) ELSE set

\* increase_volume: `?` returns at the first failing call
IncreaseVolume(st, p, increase, env) ==
    IF ~env.getOk THEN Call(st, GetVolumeCall(p, FALSE, 0))
    ELSE Call(Call(st, GetVolumeCall(p, TRUE, env.volume)),
              SetVolumeCall(p, env.setOk, env.volume + increase))

\* mutant: the step is subtracted whatever the volume is
DecreaseVolumeUnclamped(st, p, decrease, env) ==
    IF ~env.getOk THEN Call(st, GetVolumeCall(p, FALSE, 0))
    ELSE Call(Call(st, GetVolumeCall(p, TRUE, env.volume)),
              SetVolumeCall(p, env.setOk, env.volume - decrease))

\* decrease_volume
DecreaseVolume(st, p, decrease, env) ==
    IF ~env.getOk THEN Call(st, GetVolumeCall(p, FALSE, 0))
    ELSE Call(Call(st, GetVolumeCall(p, TRUE, env.volume)),
              SetVolumeCall(p, env.setOk,
                            IF decrease > env.volume THEN 0 ELSE env.volume - decrease))

\* mutant: Close is sent only when the call succeeded
PlayOrPauseCloseOnSuccess(st, p, op, env) ==
    LET called == Call(st, [op |-> op, player |-> p, ok |-> env.actOk])
    IN  IF env.actOk THEN Respond(called, Close) ELSE called

\* the Play and Pause arms of activate: the call, its error logged, then Close
PlayOrPause(st, p, op, env) ==
    Respond(Call(st, [op |-> op, player |-> p, ok |-> env.actOk]), Close)

\* mutant: activating a player starts it playing
MprisActivateItemPlaysPlayer(st, id, env) ==
    LET item == st.items[id + 1]
    IN  IF item.kind = "Player" THEN PlayOrPause(st, item.player, "play", env)
        ELSE CASE item.action = "VolumeUp" ->
                    IncreaseVolume(st, item.player, VolumeStep, env)
               [] item.action = "VolumeDown" ->
                    DecreaseVolume(st, item.player, VolumeStep, env)
               [] item.action = "Play" -> PlayOrPause(st, item.player, "play", env)
               [] item.action = "Pause" -> PlayOrPause(st, item.player, "pause", env)

\* activate, for an id that names an item
MprisActivateItem(st, id, env) ==
    LET item == st.items[id + 1]
    IN  IF item.kind = "Player" THEN MprisComplete(st, id, env)
        ELSE CASE item.action = "VolumeUp" ->
                    IncreaseVolume(st, item.player, VolumeStep, env)
               [] item.action = "VolumeDown" ->
                    DecreaseVolume(st, item.player, VolumeStep, env)
               [] item.action = "Play" -> PlayOrPause(st, item.player, "play", env)
               [] item.action = "Pause" -> PlayOrPause(st, item.player, "pause", env)

\* mutant: a stale id is answered with Close
MprisActivateClosesStale(st, id, env) ==
    IF id >= Len(st.items) THEN Respond(st, Close) ELSE MprisActivateItem(st, id, env)

\* MprisPlugin::activate
MprisActivate(st, id, env) ==
    IF id >= Len(st.items) THEN st ELSE MprisActivateItem(st, id, env)

----------------------------------------------------------------------------
(* The rust-docs plugin, src/bin/rust.rs *)

RUST_PREFIX == <<"r", "u", "s", "t">>

RustPrefixSp == RUST_PREFIX \o <<" ">>

\* str::split on a separator string: the pieces between its occurrences
RECURSIVE SplitAcc(_, _, _)
SplitAcc(s, sep, cur) ==
    IF s = <<>> THEN <<cur>>
    ELSE IF StartsWith(s, sep)
         THEN <<cur>> \o SplitAcc(StripPrefix(s, sep), sep, <<>>)
         ELSE SplitAcc(Tail(s), sep, Append(cur, Head(s)))

Split(s, sep) == SplitAcc(s, sep, <<>>)

\* [&str]::join
RECURSIVE Join(_, _)
Join(segments, sep) ==
    IF segments = <<>> THEN <<>>
    ELSE IF Len(segments) = 1 THEN segments[1]
    ELSE segments[1] \o sep \o Join(Tail(segments), sep)

\* Path::join below the documentation root; "" is the root itself
JoinPath(dir, name) ==
    IF dir = <<>> THEN name
    ELSE IF name = <<>> THEN dir
    ELSE dir \o <<"/">> \o name

\* a byte of a file name that is not valid UTF-8, and OsStr::to_str, which
\* gives None for a name holding one
InvalidByte == "0xFF"
ToStrOk(name) == \A i \in DOMAIN name : name[i] # InvalidByte

\* The documentation tree on disk, by path below the directory of the index:
\* what is there, and what read_dir lists
DocTree(path) ==
    IF path = <<>>
    THEN [kind |-> "dir", entries |->
          <<[file_name |-> <<"s", "t", "d">>, is_dir |-> TRUE],
          [file_name |-> <<"i", "n", "d", "e", "x", ".", "h", "t", "m", "l">>, is_dir |-> FALSE],
          [file_name |-> <<"R", "E", "A", "D", "M", "E">>, is_dir |-> FALSE]>>]
    ELSE IF path = <<"s", "t", "d">>
    THEN [kind |-> "dir", entries |->
          <<[file_name |-> <<"v", "e", "c">>, is_dir |-> TRUE],
          [file_name |-> <<"f", "s">>, is_dir |-> TRUE],
          [file_name |-> <<"i", "n", "d", "e", "x", ".", "h", "t", "m", "l">>, is_dir |-> FALSE],
          [file_name |-> <<"m", "a", "c", "r", "o", ".", "v", "e", "c", ".", "h", "t", "m", "l">>, is_dir |-> FALSE],
          [file_name |-> <<"m", "a", "c", "r", "o", ".", "d", "b", "g", ".", "h", "t", "m", "l">>, is_dir |-> FALSE],
          [file_name |-> <<"i", "o">>, is_dir |-> TRUE],
          [file_name |-> <<"p", "r", "i", "m", "i", "t", "i", "v", "e", ".", "u", "8", ".", "h", "t", "m", "l">>, is_dir |-> FALSE],
          [file_name |-> <<"p", "r", "i", "m", "i", "t", "i", "v", "e", ".", "f", "3", "2", ".", "h", "t", "m", "l">>, is_dir |-> FALSE],
          [file_name |-> <<"s", "i", "d", "e", "b", "a", "r", "-", "i", "t", "e", "m", "s", ".", "j", "s">>, is_dir |-> FALSE],
          [file_name |-> <<"k", "e", "y", "w", "o", "r", "d", ".", "f", "n", ".", "h", "t", "m", "l">>, is_dir |-> FALSE],
          [file_name |-> <<"k", "e", "y", "w", "o", "r", "d", ".", "i", "f", ".", "h", "t", "m", "l">>, is_dir |-> FALSE],
          [file_name |-> <<"k", "e", "y", "w", "o", "r", "d", ".", "f", "o", "r", ".", "h", "t", "m", "l">>, is_dir |-> FALSE],
          [file_name |-> <<"e", "n", "v">>, is_dir |-> TRUE]>>]
    ELSE IF path = <<"s", "t", "d", "/", "f", "s">>
    THEN [kind |-> "dir", entries |->
          <<[file_name |-> <<InvalidByte, "f">>, is_dir |-> TRUE],
          [file_name |-> <<"s", "t", "r", "u", "c", "t", ".", "F", "i", "l", "e", ".", "h", "t", "m", "l">>, is_dir |-> FALSE]>>]
    ELSE IF path = <<"s", "t", "d", "/", "e", "n", "v">>
    THEN [kind |-> "dir", entries |->
          <<[file_name |-> <<"f", "n", ".", "a", "r", "g", "s", ".", "h", "t", "m", "l">>, is_dir |-> FALSE],
          [file_name |-> <<"f", "n", ".", InvalidByte, ".", "h", "t", "m", "l">>, is_dir |-> FALSE]>>]
    ELSE IF path = <<"s", "t", "d", "/", "i", "o">>
    THEN [kind |-> "dir", entries |->
          <<[file_name |-> <<"s", "t", "r", "u", "c", "t", ".", "C", "u", "r", "s", "o", "r", ".", "h", "t", "m", "l">>, is_dir |-> FALSE],
          [file_name |-> <<"t", "r", "a", "i", "t", ".", "R", "e", "a", "d", ".", "h", "t", "m", "l">>, is_dir |-> FALSE],
          [file_name |-> <<"f", "n", ".", "c", "o", "p", "y", ".", "h", "t", "m", "l">>, is_dir |-> FALSE],
          [file_name |-> <<"s", "t", "r", "u", "c", "t", ".", "E", "r", "r", "o", "r", ".", "h", "t", "m", "l">>, is_dir |-> FALSE],
          [file_name |-> <<"f", "n", ".", "r", "e", "a", "d", ".", "h", "t", "m", "l">>, is_dir |-> FALSE],
          [file_name |-> <<"f", "n", ".", "s", "t", "d", "e", "r", "r", ".", "h", "t", "m", "l">>, is_dir |-> FALSE],
          [file_name |-> <<"t", "r", "a", "i", "t", ".", "W", "r", "i", "t", "e", ".", "h", "t", "m", "l">>, is_dir |-> FALSE],
          [file_name |-> <<"s", "t", "r", "u", "c", "t", ".", "S", "t", "d", "e", "r", "r", ".", "h", "t", "m", "l">>, is_dir |-> FALSE],
          [file_name |-> <<"f", "n", ".", "r", "e", "p", "e", "a", "t", ".", "h", "t", "m", "l">>, is_dir |-> FALSE],
          [file_name |-> <<"s", "t", "r", "u", "c", "t", ".", "R", "e", "p", "e", "a", "t", ".", "h", "t", "m", "l">>, is_dir |-> FALSE],
          [file_name |-> <<"t", "r", "a", "i", "t", ".", "B", "u", "f", "R", "e", "a", "d", ".", "h", "t", "m", "l">>, is_dir |-> FALSE],
          [file_name |-> <<"s", "t", "r", "u", "c", "t", ".", "B", "u", "f", "R", "e", "a", "d", "e", "r", ".", "h", "t", "m", "l">>, is_dir |-> FALSE],
          [file_name |-> <<"s", "t", "r", "u", "c", "t", ".", "B", "u", "f", "W", "r", "i", "t", "e", "r", ".", "h", "t", "m", "l">>, is_dir |-> FALSE],
          [file_name |-> <<"f", "n", ".", "s", "t", "d", "i", "n", ".", "h", "t", "m", "l">>, is_dir |-> FALSE],
          [file_name |-> <<"t", "y", "p", "e", ".", "R", "e", "s", "u", "l", "t", ".", "h", "t", "m", "l">>, is_dir |-> FALSE]>>]
    ELSE IF path = <<"i", "n", "d", "e", "x", ".", "h", "t", "m", "l">>
    THEN [kind |-> "file", entries |-> <<>>]
    ELSE [kind |-> "missing", entries |-> <<>>]

\* impl TryFrom<&str> for Type; "" stands for Err
TypeFromStr(value) ==
    CASE value = <<"f", "n">> -> "Function"
      [] value = <<"s", "t", "r", "u", "c", "t">> -> "Struct"
      [] value = <<"c", "o", "n", "s", "t", "a", "n", "t">> -> "Constant"
      [] value = <<"t", "r", "a", "i", "t">> -> "Trait"
      [] value = <<"m", "a", "c", "r", "o">> -> "Macro"
      [] value = <<"t", "y", "p", "e">> -> "Type"
      [] value = <<"e", "n", "u", "m">> -> "Enum"
      [] value = <<"p", "r", "i", "m", "i", "t", "i", "v", "e">> -> "Primitive"
      [] value = <<"k", "e", "y", "w", "o", "r", "d">> -> "Keyword"
      [] OTHER -> ""

\* impl From<Type> for String
TypeToString(type) ==
    CASE type = "Function" -> "function"
      [] type = "Struct" -> "struct"
      [] type = "Keyword" -> "keyword"
      [] type = "Macro" -> "macro"
      [] type = "Trait" -> "trait"
      [] type = "Module" -> "module"
      [] type = "Primitive" -> "primitive"
      [] type = "Constant" -> "contant"
      [] type = "Enum" -> "enum"
      [] type = "Type" -> "type"

\* the first filter_map of search: the Entry of a directory entry, or none
\* (an empty sequence) where the closure returns None
EntryOf(dir, dirEntry) ==
    IF dirEntry.is_dir /\ ~ToStrOk(dirEntry.file_name) THEN <<>>
    ELSE IF dirEntry.is_dir
    THEN <<[name |-> dirEntry.file_name, type |-> "Module",
            file_path |-> JoinPath(JoinPath(dir, dirEntry.file_name),
                                   <<"i", "n", "d", "e", "x", ".", "h", "t", "m", "l">>)]>>
    ELSE LET fileSegments == Split(dirEntry.file_name, <<".">>)
         IN  IF Len(fileSegments) < 2 \/ TypeFromStr(fileSegments[1]) = "" THEN <<>>
             ELSE <<[name |-> fileSegments[2], type |-> TypeFromStr(fileSegments[1]),
                     file_path |-> JoinPath(dir, dirEntry.file_name)]>>

RECURSIVE EntriesOf(_, _)
EntriesOf(dir, dirEntries) ==
    IF dirEntries = <<>> THEN <<>>
    ELSE EntryOf(dir, Head(dirEntries)) \o EntriesOf(dir, Tail(dirEntries))

\* filename.to_str().unwrap() of the first filter_map panics on a file (not a
\* directory) whose name is not valid UTF-8
NameUnwrapPanics(dirEntries) ==
    \E i \in DOMAIN dirEntries :
        ~dirEntries[i].is_dir /\ ~ToStrOk(dirEntries[i].file_name)

\* the second filter_map: the entries the search term matches, with their scores
Scored(entries, searchTerm) ==
    LET matching == SelectSeq(entries, LAMBDA e : FuzzyMatches(e.name, searchTerm))
    IN  [i \in DOMAIN matching |->
            [entry |-> matching[i], score |-> FuzzyScore(matching[i].name, searchTerm)]]

\* mutant: an entry goes before those of its own score
RECURSIVE InsertByScoreUnstable(_, _)
InsertByScoreUnstable(sorted, x) ==
    IF sorted = <<>> THEN <<x>>
    ELSE IF Head(sorted).score > x.score
         THEN <<Head(sorted)>> \o InsertByScoreUnstable(Tail(sorted), x)
         ELSE <<x>> \o sorted

\* Itertools::sorted_by(|x, y| y_score.cmp(x_score)): a stable sort, best score first
RECURSIVE InsertByScore(_, _)
InsertByScore(sorted, x) ==
    IF sorted = <<>> THEN <<x>>
    ELSE IF Head(sorted).score >= x.score
         THEN <<Head(sorted)>> \o InsertByScore(Tail(sorted), x)
         ELSE <<x>> \o sorted

RECURSIVE SortedByScore(_)
SortedByScore(scored) ==
    IF scored = <<>> THEN <<>>
    ELSE InsertByScore(SortedByScore(SubSeq(scored, 1, Len(scored) - 1)),
                       scored[Len(scored)])

\* .take(10)
RUST_TAKE == 10
Take(s, n) == SubSeq(s, 1, IF Len(s) < n THEN Len(s) ELSE n)

\* the body of search's for loop over the enumerated entries
RECURSIVE RustAppendAll(_, _, _)
RustAppendAll(st, ranked, id) ==
    IF ranked = <<>> THEN st
    ELSE LET entry == Head(ranked).entry
             pushed == [st EXCEPT !.items = Append(@, entry)]
             sent == Respond(pushed, AppendResult(
                         [id |-> id, name |-> entry.name,
                          description |-> TypeToString(entry.type), icon |-> ""]))
         IN  RustAppendAll(sent, Tail(ranked), id + 1)

\* RustDocsPlugin::search.  env.indexOk: get_index_path succeeded;
\* env.readOk: read_dir of an existing directory succeeded
RustSearch(st, input, env) ==
    IF ~StartsWith(input, RustPrefixSp) THEN Respond(st, Finished)
    ELSE
      LET rest == StripPrefix(input, RustPrefixSp)
          cleared == [Respond(st, Clear) EXCEPT !.items = <<>>]
          segments == Split(rest, <<":", ":">>)
          searchTerm == segments[Len(segments)]
          asked == Call(cleared, [op |-> "get_index_path", ok |-> env.indexOk])
          path == Join(SubSeq(segments, 1, Len(segments) - 1), <<"/">>)
          node == DocTree(path)
      IN  IF ~env.indexOk THEN Respond(asked, Finished)
          ELSE IF node.kind = "missing" THEN Respond(asked, Finished)
          ELSE IF node.kind = "file" \/ ~env.readOk
               THEN [Call(asked, [op |-> "read_dir", path |-> path, ok |-> FALSE])
                       EXCEPT !.panicked = TRUE]
          ELSE IF NameUnwrapPanics(node.entries)
               THEN [Call(asked, [op |-> "read_dir", path |-> path, ok |-> TRUE])
                       EXCEPT !.panicked = TRUE]
          ELSE Respond(
                 RustAppendAll(
                   Call(asked, [op |-> "read_dir", path |-> path, ok |-> TRUE]),
                   Take(SortedByScore(Scored(EntriesOf(path, node.entries), searchTerm)),
                        RUST_TAKE),
                   0),
                 Finished)

\* RustDocsPlugin::activate
RustActivate(st, id, env) ==
    IF id >= Len(st.items) THEN st
    ELSE Respond(Call(st, [op |-> "spawn", program |-> "xdg-open",
                           arg |-> st.items[id + 1].file_path, ok |-> env.actOk]),
                 Close)

----------------------------------------------------------------------------
(* The command-list plugin, src/bin/commando.rs *)

\* shlex::split over the characters the command strings here use: words are
\* separated by spaces, a quote runs to the next quote of its kind, and a quote
\* left open makes the split fail.  quote is "" outside quotes.
RECURSIVE ShlexAcc(_, _, _, _, _)
ShlexAcc(s, words, cur, inWord, quote) ==
    IF s = <<>>
    THEN IF quote # "" THEN [ok |-> FALSE, words |-> <<>>]
         ELSE [ok |-> TRUE, words |-> IF inWord THEN Append(words, cur) ELSE words]
    ELSE IF quote # ""
         THEN IF Head(s) = quote THEN ShlexAcc(Tail(s), words, cur, TRUE, "")
              ELSE ShlexAcc(Tail(s), words, Append(cur, Head(s)), TRUE, quote)
    ELSE IF Head(s) \in {"'", "\""} THEN ShlexAcc(Tail(s), words, cur, TRUE, Head(s))
    ELSE IF Head(s) = " "
         THEN ShlexAcc(Tail(s), IF inWord THEN Append(words, cur) ELSE words,
                       <<>>, FALSE, "")
    ELSE ShlexAcc(Tail(s), words, Append(cur, Head(s)), TRUE, "")

ShlexSplit(s) == ShlexAcc(s, <<>>, <<>>, FALSE, "")

\* struct Command, as the command files define them; icon "" stands for None
LockScreen ==
    [name |-> <<"L", "o", "c", "k", " ", "S", "c", "r", "e", "e", "n">>,
     command |-> <<"l", "o", "g", "i", "n", "c", "t", "l", " ", "l", "o", "c", "k", "-", "s", "e", "s", "s", "i", "o", "n">>,
     icon |-> "system-lock-screen"]
Htop ==
    [name |-> <<"H", "t", "o", "p">>,
     command |-> <<"a", "l", "a", "c", "r", "i", "t", "t", "y", " ", "-", "e", " ", "'", "h", "t", "o", "p">>,
     icon |-> ""]
Blank ==
    [name |-> <<"B", "l", "a", "n", "k">>, command |-> <<" ", " ", " ">>, icon |-> ""]
Editor ==
    [name |-> <<"E", "d", "i", "t", "o", "r">>,
     command |-> <<"s", "h", " ", "-", "c", " ", "'", "g", "e", "d", "i", "t", " ", "n", "o", "t", "e", "s", "'">>,
     icon |-> ""]

\* what get_commands().unwrap_or_default() can load: no command at all, the
\* one command of the scenario, or several files' commands in reading order
CommandLists ==
    {<<>>, <<LockScreen>>, <<Htop, LockScreen, Blank>>, <<Editor, Blank, LockScreen, Htop>>}

\* the body of search's for loop, for the command at index id
CommandoAppend(st, loaded, id) ==
    Respond(st, AppendResult([id |-> id, name |-> loaded[id + 1].name,
                              description |-> "", icon |-> loaded[id + 1].icon]))

\* commands.iter().enumerate().filter(..): the loop over the matching commands
RECURSIVE CommandoAppendAll(_, _, _, _)
CommandoAppendAll(st, loaded, query, id) ==
    IF id >= Len(loaded) THEN st
    ELSE CommandoAppendAll(
           IF FuzzyMatches(loaded[id + 1].name, query)
           THEN CommandoAppend(st, loaded, id) ELSE st,
           loaded, query, id + 1)

\* CommandoPlugin::search
CommandoSearch(st, loaded, query) ==
    Respond(CommandoAppendAll(Respond(st, Clear), loaded, query, 0), Finished)

\* the spawn of a split command, its error logged
SpawnCall(words, ok) ==
    [op |-> "spawn", program |-> Head(words), args |-> Tail(words), ok |-> ok]

\* mutant: a command that cannot be run is not answered
CommandoActivateSilentOnError(st, loaded, id, env) ==
    IF id >= Len(loaded) THEN st
    ELSE LET split == ShlexSplit(loaded[id + 1].command)
         IN  IF ~split.ok \/ split.words = <<>> THEN st
             ELSE Respond(Call(st, SpawnCall(split.words, env.actOk)), Close)

\* mutant: only an entry the host has been shown since the last Clear is run
CommandoActivateShownOnly(st, loaded, id, env) ==
    IF id >= Len(loaded) \/ \A n \in DOMAIN shown : shown[n].id # id THEN st
    ELSE LET split == ShlexSplit(loaded[id + 1].command)
         IN  IF ~split.ok THEN Respond(st, Close)
             ELSE IF split.words = <<>> THEN Respond(st, Close)
             ELSE Respond(Call(st, SpawnCall(split.words, env.actOk)), Close)

\* CommandoPlugin::activate
CommandoActivate(st, loaded, id, env) ==
    IF id >= Len(loaded) THEN st
    ELSE LET split == ShlexSplit(loaded[id + 1].command)
         IN  IF ~split.ok THEN Respond(st, Close)
             ELSE IF split.words = <<>> THEN Respond(st, Close)
             ELSE Respond(Call(st, SpawnCall(split.words, env.actOk)), Close)

----------------------------------------------------------------------------
(* The KiCad plugin, src/bin/kicad.rs *)

KICAD_PREFIX == <<"k", "i", "c", "a", "d", " ">>

\* Path::file_stem: the last component without its last extension
FileStem(path) ==
    LET components == Split(path, <<"/">>)
        fileName == components[Len(components)]
        pieces == Split(fileName, <<".">>)
    IN  IF Len(pieces) = 1 THEN fileName
        ELSE Join(SubSeq(pieces, 1, Len(pieces) - 1), <<".">>)

\* get_projects' closure: KicadProject { path, name }
KicadProject(path) == [path |-> path, name |-> FileStem(path)]

\* the project files fd can find, in the order it prints them
AmpPath == <<"/", "h", "/", "a", "m", "p", ".", "k", "i", "c", "a", "d", "_", "p", "r", "o">>
PsuPath == <<"/", "h", "/", "p", "s", "u", "/", "p", "s", "u", ".", "k", "i", "c", "a", "d", "_", "p", "r", "o">>
OldAmpPath == <<"/", "h", "/", "o", "l", "d", "/", "a", "m", "p", ".", "k", "i", "c", "a", "d", "_", "p", "r", "o">>

\* what get_projects can load
ProjectLists ==
    {<<>>, <<KicadProject(AmpPath)>>,
     <<KicadProject(PsuPath), KicadProject(AmpPath)>>,
     <<KicadProject(PsuPath), KicadProject(AmpPath), KicadProject(OldAmpPath)>>}

\* the body of search's for loop, for the project at index id
KicadAppend(st, loaded, id) ==
    Respond(st, AppendResult([id |-> id, name |-> loaded[id + 1].name,
                              description |-> "", icon |-> "kicad"]))

\* projects.iter().enumerate().filter(..): the loop over the matching projects
RECURSIVE KicadAppendAll(_, _, _, _)
KicadAppendAll(st, loaded, query, id) ==
    IF id >= Len(loaded) THEN st
    ELSE KicadAppendAll(
           IF FuzzyMatches(loaded[id + 1].name, query)
           THEN KicadAppend(st, loaded, id) ELSE st,
           loaded, query, id + 1)

\* KicadPlugin::search
KicadSearch(st, loaded, pat) ==
    IF ~StartsWith(pat, KICAD_PREFIX) THEN Respond(st, Finished)
    ELSE Respond(KicadAppendAll(Respond(st, Clear), loaded,
                                StripPrefix(pat, KICAD_PREFIX), 0),
                 Finished)

\* KicadPlugin::activate
KicadActivate(st, loaded, id, env) ==
    IF id >= Len(loaded) THEN st
    ELSE Respond(Call(st, [op |-> "spawn", program |-> "kicad",
                           arg |-> loaded[id + 1].path, ok |-> env.actOk]),
                 Close)

----------------------------------------------------------------------------
(* The notmuch plugin, src/bin/notmuch.rs *)

NOTMUCH_PREFIX == <<"n", "o", "t", "m", "u", "c", "h", " ">>

\* threads.into_iter().take(20)
NOTMUCH_TAKE == 20

\* notmuch::Thread: the threads of the mail index, more of them than one pass
\* takes
MailThreads == NOTMUCH_TAKE + 2
Thread(n) ==
    [id |-> n,
     subject |-> IF n % 2 = 1 THEN <<"H", "e", "l", "l", "o">>
                 ELSE <<"R", "e", ":", " ", "H", "e", "l", "l", "o">>]

\* Query::search_threads: the threads a query string selects, in index order
SearchThreads(query) ==
    IF query = <<>> THEN [n \in 1..MailThreads |-> Thread(n)]
    ELSE IF query = <<"t", "a", "g", ":", "i", "n", "b", "o", "x">>
    THEN <<Thread(4), Thread(1), Thread(7)>>
    ELSE IF query = <<"f", "r", "o", "m", ":", "b", "o", "b">>
    THEN <<Thread(2)>>
    ELSE <<>>

\* NotmuchPlugin::format_item
FormatItem(st, item) ==
    [id |-> Len(st.items), name |-> item.subject, description |-> "Description",
     icon |-> ""]

\* mutant: the list is emptied but no Clear is sent
NotmuchClearSilent(st) == [st EXCEPT !.items = <<>>]

\* NotmuchPlugin::clear
NotmuchClear(st) == Respond([st EXCEPT !.items = <<>>], Clear)

\* NotmuchPlugin::add_item
AddItem(st, item) ==
    LET sent == Respond(st, AppendResult(FormatItem(st, item)))
    IN  [sent EXCEPT !.items = Append(@, item)]

RECURSIVE AddItems(_, _)
AddItems(st, threads) ==
    IF threads = <<>> THEN st
    ELSE AddItems(AddItem(st, Head(threads)), Tail(threads))

\* NotmuchPlugin::search.  env.queryOk: create_query succeeded; env.threadsOk:
\* search_threads succeeded
NotmuchSearch(st, input, env) ==
    IF ~StartsWith(input, NOTMUCH_PREFIX) THEN Respond(st, Finished)
    ELSE
      LET query == StripPrefix(input, NOTMUCH_PREFIX)
          created == Call(st, [op |-> "create_query", query |-> query, ok |-> env.queryOk])
          searched == Call(created, [op |-> "search_threads", ok |-> env.threadsOk])
      IN  IF ~env.queryOk THEN Respond(created, Finished)
          ELSE IF ~env.threadsOk THEN Respond(searched, Finished)
          ELSE Respond(AddItems(NotmuchClear(searched),
                                Take(SearchThreads(query), NOTMUCH_TAKE)),
                       Finished)

\* main, the Request::Activate arm: xdg_open drops the result of the spawn
NotmuchActivate(st, id, env) ==
    IF id >= Len(st.items) THEN st
    ELSE Respond(Call(st, [op |-> "spawn", program |-> "xdg-open",
                           arg |-> st.items[id + 1].id, ok |-> env.actOk]),
                 Close)

----------------------------------------------------------------------------
(* The session: main's loop over the request stream, and the trait's dispatch *)

\* the queries the host sends
MprisQueries ==
    {<<"m", "e", "d", "i", "a", " ", "S", "p", "o", "t">>,
     <<"m", "e", "d", "i", "a", " ", "S", "p", "o", "t", "i", "f", "y", " ", "V", "o", "l">>,
     <<"m", "e", "d", "i", "a", " ">>,
     <<"m", "e", "d", "i", "a", " ", "S", "p", "o", "t", "i", "f", "y", " ", "p">>,
     <<"m", "e", "d", "i", "a", " ", "f">>,
     <<"m", "e", "d", "i", "a", "S", "p", "o", "t">>,
     <<"m", "e", "d", "i", "a">>}

RustQueries ==
    {<<"r", "u", "s", "t", " ">>,
     <<"r", "u", "s", "t", " ", "v">>,
     <<"r", "u", "s", "t", " ", "s", "t", "d", ":", ":">>,
     <<"r", "u", "s", "t", " ", "s", "t", "d", ":", ":", "f">>,
     <<"r", "u", "s", "t", " ", "n", "o", ":", ":", "x">>,
     <<"r", "u", "s", "t", " ", "i", "n", "d", "e", "x", ".", "h", "t", "m", "l", ":", ":", "x">>,
     <<"r", "u", "s", "t", " ", "s", "t", "d", ":", ":", "e", "n", "v", ":", ":", "a">>,
     <<"r", "u", "s", "t", " ", "s", "t", "d", ":", ":", "f", "s", ":", ":">>,
     <<"r", "u", "s", "t", " ", "s", "t", "d", ":", ":", "i", "o", ":", ":", "r">>,
     <<"r", "u", "s">>}

\* the ids the host sends with Activate and Complete: 0..MaxId
MaxId == 4
Ids == 0..MaxId

\* the volumes get_volume reports, between 0.0 and 1.0: those near either end
Volumes ==
    {v \in 0..FullVolume : v <= VolumeStep + 1 \/ v >= FullVolume - VolumeStep - 1}

\* The outcomes of the collaborator calls of one handler run.  A handler
\* reads only the fields of the calls it makes.
NoFailure ==
    [ok1 |-> TRUE, ok2 |-> TRUE, failAt |-> 0, getOk |-> TRUE, setOk |-> TRUE,
     volume |-> 0, actOk |-> TRUE, indexOk |-> TRUE, readOk |-> TRUE,
     queryOk |-> TRUE, threadsOk |-> TRUE, wfail |-> 0]

\* a write to stdout fails while a request is served: the first or the second
\* response of the handler is lost; a request meets a failing collaborator or
\* a failing write
WriteOutcomes == {[NoFailure EXCEPT !.wfail = k] : k \in {1, 2}}

\* search: without a selected player the two find_all calls decide; with one
\* (the first find_all succeeded) the find_by_name calls do
SearchOutcomes ==
    {[NoFailure EXCEPT !.ok1 = a, !.ok2 = b] : a \in BOOLEAN, b \in BOOLEAN}
        \cup {[NoFailure EXCEPT !.failAt = k] : k \in 1..Len(PlayerControlsIter)}

\* a volume action: get_volume fails, or it reports a volume and set_volume
\* succeeds or fails
VolumeOutcomes ==
    {[NoFailure EXCEPT !.getOk = FALSE]}
        \cup {[NoFailure EXCEPT !.setOk = b, !.volume = v] : b \in BOOLEAN, v \in Volumes}

ActOutcomes == {[NoFailure EXCEPT !.actOk = a] : a \in BOOLEAN}

RustSearchOutcomes ==
    {[NoFailure EXCEPT !.indexOk = a, !.readOk = b] : a \in BOOLEAN, b \in BOOLEAN}

\* the outcomes that matter to activate(id) in the current state
MprisActivateOutcomes(id) ==
    IF id >= Len(items) THEN {NoFailure}
    ELSE IF items[id + 1].kind = "Player" THEN SearchOutcomes \cup WriteOutcomes
    ELSE IF items[id + 1].action \in {"VolumeUp", "VolumeDown"} THEN VolumeOutcomes
    ELSE ActOutcomes \cup WriteOutcomes

MprisCompleteOutcomes(id) ==
    IF id >= Len(items) THEN {NoFailure} ELSE SearchOutcomes \cup WriteOutcomes

\* the request stream: the host sends any number of lines and may close the
\* stream at any time (pending = Open), or it has decided on the number of
\* lines it will send, at most MaxInput
Open == -1
MaxInput == 2

\* main up to the loop: the plugin is constructed and nothing is sent yet
Constructed ==
    /\ plugin \in {"mpris", "rust", "commando", "kicad", "notmuch"}
    /\ session = "running"
    /\ items = <<>>
    /\ resp = <<>>
    /\ calls = <<>>
    /\ live \in (IF plugin = "mpris" THEN LiveLists ELSE {<<>>})
    /\ commands \in (IF plugin = "commando" THEN CommandLists ELSE {<<>>})
    /\ projects \in (IF plugin = "kicad" THEN ProjectLists ELSE {<<>>})
    /\ lastReq = [kind |-> "None"]
    /\ shown = <<>>
    /\ lost = 0

Init == Constructed /\ pending = Open

\* requests.next() yields a line
HasLine == session = "running" /\ pending # 0

\* the results the Responder was handed since it was last handed a Clear
RECURSIVE SentAfter(_, _)
SentAfter(before, responses) ==
    IF responses = <<>> THEN before
    ELSE LET response == Head(responses)
         IN  SentAfter(IF response = Clear THEN <<>>
                       ELSE IF response.type = "Append" THEN Append(before, response.result)
                       ELSE before,
                       Tail(responses))

\* a handler has returned (or panicked): the loop takes the next line
Served(st, req) ==
    /\ items' = st.items
    /\ resp' = st.resp
    /\ calls' = st.calls
    /\ shown' = SentAfter(shown, st.resp)
    /\ lost' = st.lost
    /\ session' = IF st.panicked THEN "aborted" ELSE session
    /\ lastReq' = req
    /\ pending' = IF pending = Open THEN Open ELSE pending - 1
    /\ UNCHANGED <<plugin, live, commands, projects>>

\* a handler's entry: the list as it is, stdout as this request finds it
Start(env) == Piped(Fresh(items), env.wfail)

\* Request::Search, media-control.  `repeated` notes that the request before
\* was the same Search and that the collaborator answered it the same way;
\* `stale` that the list held a player that has left the bus since.
MprisSearchRequest ==
    /\ plugin = "mpris" /\ HasLine
    /\ \E q \in MprisQueries, env \in SearchOutcomes \cup WriteOutcomes :
          LET st == MprisSearch(Start(env), q, env)
          IN  Served(st, [kind |-> "Search", query |-> q,
                          repeated |-> /\ lastReq.kind = "Search"
                                       /\ lastReq.query = q
                                       /\ calls = st.calls,
                          stale |-> \E i \in DOMAIN items :
                                       \A j \in DOMAIN live : live[j] # items[i].player])

\* Request::Activate, media-control
MprisActivateRequest ==
    /\ plugin = "mpris" /\ HasLine
    /\ \E id \in Ids : \E env \in MprisActivateOutcomes(id) :
          Served(MprisActivate(Start(env), id, env), [kind |-> "Activate", id |-> id])

\* Request::Complete, media-control
MprisCompleteRequest ==
    /\ plugin = "mpris" /\ HasLine
    /\ \E id \in Ids : \E env \in MprisCompleteOutcomes(id) :
          Served(MprisComplete(Start(env), id, env), [kind |-> "Complete", id |-> id])

\* Request::Search, rust-docs
RustSearchRequest ==
    /\ plugin = "rust" /\ HasLine
    /\ \E q \in RustQueries, env \in RustSearchOutcomes \cup WriteOutcomes :
          Served(RustSearch(Start(env), q, env), [kind |-> "Search", query |-> q])

\* Request::Activate, rust-docs
RustActivateRequest ==
    /\ plugin = "rust" /\ HasLine
    /\ \E id \in Ids, env \in ActOutcomes \cup WriteOutcomes :
          Served(RustActivate(Start(env), id, env), [kind |-> "Activate", id |-> id])

\* the queries sent to the command-list plugin
CommandoQueries ==
    {<<"L", "o">>, <<"o">>, <<"z", "z">>, <<>>}

\* Request::Search, command list
CommandoSearchRequest ==
    /\ plugin = "commando" /\ HasLine
    /\ \E q \in CommandoQueries, env \in {NoFailure} \cup WriteOutcomes :
          Served(CommandoSearch(Start(env), commands, q), [kind |-> "Search", query |-> q])

\* Request::Activate, command list.  `first` notes that no request came before.
CommandoActivateRequest ==
    /\ plugin = "commando" /\ HasLine
    /\ \E id \in Ids, env \in ActOutcomes \cup WriteOutcomes :
          Served(CommandoActivate(Start(env), commands, id, env),
                 [kind |-> "Activate", id |-> id, first |-> lastReq.kind = "None"])

\* the queries sent to the KiCad plugin
KicadQueries ==
    {<<"k", "i", "c", "a", "d", " ">>, <<"k", "i", "c", "a", "d", " ", "a", "m">>,
     <<"k", "i", "c", "a", "d", " ", "x">>, <<"k", "i", "c", "a", "d", "a", "m", "p">>,
     <<"a", "m", "p">>}

\* Request::Search, KiCad
KicadSearchRequest ==
    /\ plugin = "kicad" /\ HasLine
    /\ \E q \in KicadQueries, env \in {NoFailure} \cup WriteOutcomes :
          Served(KicadSearch(Start(env), projects, q), [kind |-> "Search", query |-> q])

\* Request::Activate, KiCad.  `first` notes that no request came before.
KicadActivateRequest ==
    /\ plugin = "kicad" /\ HasLine
    /\ \E id \in Ids, env \in ActOutcomes \cup WriteOutcomes :
          Served(KicadActivate(Start(env), projects, id, env),
                 [kind |-> "Activate", id |-> id, first |-> lastReq.kind = "None"])

\* the queries sent to the notmuch plugin
NotmuchQueries ==
    {<<"n", "o", "t", "m", "u", "c", "h", " ">>,
     <<"n", "o", "t", "m", "u", "c", "h", " ", "t", "a", "g", ":", "i", "n", "b", "o", "x">>,
     <<"n", "o", "t", "m", "u", "c", "h", " ", "f", "r", "o", "m", ":", "b", "o", "b">>,
     <<"n", "o", "t", "m", "u", "c", "h", " ", "x">>,
     <<"n", "o", "t", "m", "u", "c", "h">>,
     <<"t", "a", "g", ":", "i", "n", "b", "o", "x">>}

NotmuchSearchOutcomes ==
    {NoFailure, [NoFailure EXCEPT !.queryOk = FALSE], [NoFailure EXCEPT !.threadsOk = FALSE]}

\* main, the Request::Search arm, notmuch
NotmuchSearchRequest ==
    /\ plugin = "notmuch" /\ HasLine
    /\ \E q \in NotmuchQueries, env \in NotmuchSearchOutcomes \cup WriteOutcomes :
          Served(NotmuchSearch(Start(env), q, env), [kind |-> "Search", query |-> q])

\* main, the Request::Activate arm, notmuch
NotmuchActivateRequest ==
    /\ plugin = "notmuch" /\ HasLine
    /\ \E id \in Ids, env \in ActOutcomes \cup WriteOutcomes :
          Served(NotmuchActivate(Start(env), id, env), [kind |-> "Activate", id |-> id])

\* main, the arms of notmuch that only warn
IgnoredVerbs == {"ActivateContext", "Complete", "Context", "Exit", "Interrupt", "Quit"}

NotmuchIgnoredRequest ==
    /\ plugin = "notmuch" /\ HasLine
    /\ \E kind \in IgnoredVerbs : Served(Fresh(items), [kind |-> kind])

\* the verbs a plugin leaves to the trait's empty default methods
DefaultVerbs ==
    {"ActivateContext", "Context", "Exit", "Interrupt", "Quit"}
        \cup (IF plugin = "mpris" THEN {} ELSE {"Complete"})

\* mutant: Exit and Quit end the loop
DefaultRequestExitStops ==
    /\ plugin # "notmuch" /\ HasLine
    /\ \E kind \in DefaultVerbs :
          /\ items' = items /\ resp' = <<>> /\ calls' = <<>>
          /\ shown' = shown /\ lost' = 0
          /\ session' = IF kind \in {"Exit", "Quit"} THEN "stopped" ELSE session
          /\ lastReq' = [kind |-> kind]
          /\ pending' = IF pending = Open THEN Open ELSE pending - 1
          /\ UNCHANGED <<plugin, live, commands, projects>>

DefaultRequest ==
    /\ plugin # "notmuch" /\ HasLine
    /\ \E kind \in DefaultVerbs : Served(Fresh(items), [kind |-> kind])

\* mutant: a line that does not decode resets the plugin's list
MalformedLineResets ==
    /\ HasLine
    /\ Served(Fresh(<<>>), [kind |-> "Malformed"])

\* main: a line that does not decode is warned about and skipped
MalformedLine ==
    /\ HasLine
    /\ Served(Fresh(items), [kind |-> "Malformed"])

\* main: requests.next() yields None, the request stream has ended and the
\* loop with it
EndOfInput ==
    /\ session = "running" /\ pending \in {Open, 0}
    /\ session' = "stopped"
    /\ lastReq' = [kind |-> "EndOfInput"]
    /\ UNCHANGED <<plugin, items, resp, calls, live, commands, projects, pending,
                   shown, lost>>

\* between two requests players come and go on the bus; by then the host has
\* read the answer to the last request, and the record of it is dropped
PlayersChange ==
    /\ plugin = "mpris" /\ session = "running"
    /\ live' \in LiveLists \ {live}
    /\ resp' = <<>>
    /\ calls' = <<>>
    /\ lastReq' = [kind |-> "None"]
    /\ lost' = 0
    /\ UNCHANGED <<plugin, session, items, commands, projects, pending, shown>>

\* one turn of main's loop: requests.next() is awaited and what it yields is
\* handled to completion
LoopStep ==
    \/ MprisSearchRequest
    \/ MprisActivateRequest
    \/ MprisCompleteRequest
    \/ RustSearchRequest
    \/ RustActivateRequest
    \/ CommandoSearchRequest
    \/ CommandoActivateRequest
    \/ KicadSearchRequest
    \/ KicadActivateRequest
    \/ NotmuchSearchRequest
    \/ NotmuchActivateRequest
    \/ NotmuchIgnoredRequest
    \/ DefaultRequest
    \/ MalformedLine
    \/ EndOfInput

Next ==
    \/ LoopStep
    \/ PlayersChange

Spec == Init /\ [][Next]_vars

\* The host sends a stream of a length it has fixed, and the runtime keeps
\* running main's only task: the loop is not left waiting forever while a line
\* or the end of the stream is there to be read.
FiniteInit == Constructed /\ pending \in 0..MaxInput

FairSpec == FiniteInit /\ [][Next]_vars /\ WF_vars(LoopStep)

----------------------------------------------------------------------------
(* The claims *)

MediaSp == <<"m", "e", "d", "i", "a", " ">>
Spotify == <<"S", "p", "o", "t", "i", "f", "y">>
VolumeUpName == <<"V", "o", "l", "u", "m", "e", " ", "u", "p">>
VolumeDownName == <<"V", "o", "l", "u", "m", "e", " ", "d", "o", "w", "n">>

\* the Append responses of a response sequence, in order
Appends(r) == SelectSeq(r, LAMBDA x : x.type = "Append")

\* one search pass: Clear, then only Appends, then Finished
IsPass(r) ==
    /\ Len(r) >= 2
    /\ r[1] = Clear
    /\ r[Len(r)] = Finished
    /\ \A i \in 2..(Len(r) - 1) : r[i].type = "Append"

\* every Append lies between a Clear and a Finished with only Appends between
WellBracketed(r) ==
    \A i \in DOMAIN r : r[i].type = "Append" =>
        \E a \in 1..(i - 1), b \in (i + 1)..Len(r) :
            /\ r[a] = Clear
            /\ r[b] = Finished
            /\ \A k \in (a + 1)..(b - 1) : r[k].type = "Append"

\* what the host sees of a response sequence: types, and ids and names of Appends
Seen(r) ==
    [i \in DOMAIN r |->
        IF r[i].type = "Append"
        THEN <<"Append", r[i].result.id, r[i].result.name>>
        ELSE <<r[i].type>>]

AllOk(cs) == \A i \in DOMAIN cs : cs[i].ok

ItemName(item) ==
    IF item.kind = "Player" THEN Identity(item.player) ELSE ControlStr(item.action)

\* this step serves a request of the given kind to completion
RequestStep(kind) ==
    /\ session = "running" /\ session' = "running"
    /\ live' = live
    /\ lastReq'.kind = kind

\* C1: in the media-control plugin every Search is answered by exactly one
\* Clear, then zero or more Appends, then exactly one Finished, on every path;
\* and no request ever emits an Append outside such a Clear...Finished pair.
C1_SearchPassShape ==
    plugin = "mpris" =>
        /\ lastReq.kind = "Search" => IsPass(resp)
        /\ WellBracketed(resp)

\* a pass that find_by_name cut short after an Append
C1_Witness ==
    /\ plugin = "mpris" /\ lastReq.kind = "Search"
    /\ Len(Appends(resp)) >= 1
    /\ \E i \in DOMAIN calls : calls[i].op = "find_by_name" /\ ~calls[i].ok

\* C2: in the media-control plugin a Search whose query does not start with
\* "media " emits exactly Clear, Finished and leaves the Result List empty.
C2_PrefixMismatch ==
    (plugin = "mpris" /\ lastReq.kind = "Search" /\ ~StartsWith(lastReq.query, MediaSp))
        => (resp = <<Clear, Finished>> /\ items = <<>>)

\* the query "mediaSpot", which only lacks the space, has been answered
C2_Witness ==
    /\ plugin = "mpris" /\ lastReq.kind = "Search"
    /\ lastReq.query = <<"m", "e", "d", "i", "a", "S", "p", "o", "t">>
    /\ live # <<>>

\* C3: in the media-control plugin, after a request that ran a search pass the
\* Appends emitted since its Clear are as many as the Result List is long, the
\* n-th Append carries id n-1, and its name is that of the entity at index n-1.
C3_AppendsMirrorItems ==
    (plugin = "mpris" /\ \E i \in DOMAIN resp : resp[i] = Clear) =>
        LET sent == Appends(resp)
        IN  /\ Len(sent) = Len(items)
            /\ \A n \in DOMAIN sent :
                  /\ sent[n].result.id = n - 1
                  /\ sent[n].result.name = ItemName(items[n])

\* a pass of several action Appends, and one of several player Appends
C3_Witness ==
    /\ plugin = "mpris"
    /\ Len(Appends(resp)) >= 3
    /\ items[3].kind = "Action"

\* C4: Activate(id) and Complete(id) of the media-control plugin, and Activate(id)
\* of the rust-docs plugin, with id at or beyond the Result List's length emit
\* no response, call no collaborator and leave the Result List unchanged.
C4_StaleIdIgnored ==
    [][ ( /\ \/ plugin \in {"mpris", "rust"} /\ RequestStep("Activate")
             \/ plugin = "mpris" /\ RequestStep("Complete")
          /\ lastReq'.id >= Len(items) )
        => (resp' = <<>> /\ calls' = <<>> /\ items' = items) ]_vars

\* a Complete that was ignored although the list is not empty
C4_Witness ==
    /\ plugin = "mpris" /\ lastReq.kind = "Complete"
    /\ resp = <<>> /\ items # <<>> /\ lastReq.id = Len(items)

\* C5: Complete(id) of the media-control plugin with id in range emits Fill(s)
\* and then one search pass on s, where s is "media <identity> " for a bare
\* source and "media <identity> <action name>" for an action; s starts with
\* "media " and the pass goes past the prefix check (it asks for the players).
C5_CompleteFillsThenSearches ==
    [][ (plugin = "mpris" /\ RequestStep("Complete") /\ lastReq'.id < Len(items))
        => LET item == items[lastReq'.id + 1]
               s == IF item.kind = "Player"
                    THEN MediaSp \o Identity(item.player) \o <<" ">>
                    ELSE MediaSp \o Identity(item.player) \o <<" ">>
                             \o ControlStr(item.action)
           IN  /\ resp' # <<>>
               /\ resp'[1] = Fill(s)
               /\ IsPass(Tail(resp'))
               /\ StartsWith(s, MediaSp)
               /\ calls' # <<>> /\ calls'[1].op = "find_all" ]_vars

\* a Complete on an action item, re-searched into Appends
C5_Witness ==
    /\ plugin = "mpris" /\ lastReq.kind = "Complete"
    /\ resp # <<>> /\ resp[1].type = "Fill"
    /\ resp[1].text = MediaSp \o Spotify \o <<" ">> \o VolumeDownName
    /\ Len(Appends(resp)) >= 1

\* C6: in the media-control plugin the Appends of a pass come in descending
\* fuzzy-score order (equal scores in enumeration order).
C6_DescendingScoreOrder ==
    (plugin = "mpris" /\ lastReq.kind = "Search" /\ items # <<>>) =>
        LET rest == StripPrefix(lastReq.query, MediaSp)
            query == IF items[1].kind = "Player" THEN rest
                     ELSE TrimStart(StripPrefix(rest, Identity(items[1].player)))
            sent == Appends(resp)
        IN  \A i, j \in DOMAIN sent :
                i < j => FuzzyScore(sent[i].result.name, query)
                             >= FuzzyScore(sent[j].result.name, query)

\* C7: with live sources [Spotify, Firefox] and every collaborator call
\* succeeding, Search("media Spot") yields Clear, Append {0, "Spotify"},
\* Finished, and Search("media Spotify Vol") yields Clear, Append {0, "Volume
\* up"}, Append {1, "Volume down"}, Finished.
C7_Scenario ==
    [][ (plugin = "mpris" /\ RequestStep("Search") /\ live = <<1, 2>> /\ AllOk(calls'))
        => /\ lastReq'.query = MediaSp \o <<"S", "p", "o", "t">>
              => Seen(resp') = << <<"Clear">>, <<"Append", 0, Spotify>>, <<"Finished">> >>
           /\ lastReq'.query = MediaSp \o Spotify \o <<" ", "V", "o", "l">>
              => Seen(resp') = << <<"Clear">>, <<"Append", 0, VolumeUpName>>,
                                  <<"Append", 1, VolumeDownName>>, <<"Finished">> >> ]_vars

\* the second query of the scenario has been answered with two results
C7_Witness ==
    /\ plugin = "mpris" /\ live = <<1, 2>> /\ lastReq.kind = "Search"
    /\ lastReq.query = MediaSp \o Spotify \o <<" ", "V", "o", "l">>
    /\ AllOk(calls) /\ Len(items) = 2

\* C8: activating a Volume up result sets the volume to min(1.0, current + 0.1),
\* so set_volume is never passed more than 1.0; and no response is emitted.
C8_VolumeUpClamped ==
    ( /\ plugin = "mpris" /\ lastReq.kind = "Activate"
      /\ Len(calls) = 2 /\ calls[2].op = "set_volume"
      /\ items[lastReq.id + 1].action = "VolumeUp" )
    => /\ calls[2].volume
            = (IF calls[1].volume + VolumeStep > FullVolume THEN FullVolume
               ELSE calls[1].volume + VolumeStep)
       /\ calls[2].volume <= FullVolume
       /\ resp = <<>>

\* C9: activating a Play or Pause result emits exactly one Close and nothing
\* else, whether the play/pause call succeeds or fails, and leaves the Result
\* List unchanged.
C9_PlayPauseCloses ==
    [][ ( /\ plugin = "mpris" /\ RequestStep("Activate")
          /\ lastReq'.id < Len(items)
          /\ items[lastReq'.id + 1].kind = "Action"
          /\ items[lastReq'.id + 1].action \in {"Play", "Pause"} )
        => /\ resp' = <<Close>>
           /\ items' = items
           /\ Len(calls') = 1
           /\ calls'[1].op = (IF items[lastReq'.id + 1].action = "Play" THEN "play"
                              ELSE "pause") ]_vars

\* a Pause that failed and still closed the session
C9_Witness ==
    /\ plugin = "mpris" /\ lastReq.kind = "Activate"
    /\ Len(calls) = 1 /\ calls[1].op = "pause" /\ ~calls[1].ok
    /\ resp = <<Close>>

\* C10: a Search repeated right after a Search with the same query, to which
\* the collaborator gives the same answers (the same players in the same
\* order), emits the same responses and leaves the same Result List, whatever
\* the list held before the first of the two.
C10_SearchReproducible ==
    [][ ( /\ plugin = "mpris" /\ lastReq.kind = "Search" /\ RequestStep("Search")
          /\ lastReq'.query = lastReq.query
          /\ calls' = calls )
        => (resp' = resp /\ items' = items) ]_vars

\* a search with several results has been repeated
C10_Witness ==
    /\ plugin = "mpris" /\ lastReq.kind = "Search" /\ lastReq.repeated
    /\ Len(items) >= 2 /\ items[1].kind = "Player"

\* the spawn calls among a handler's collaborator calls
Spawns(cs) == SelectSeq(cs, LAMBDA c : c.op = "spawn")

\* C11: in the command-list plugin Activate(id) of an existing command emits
\* exactly one Close on every path (the process spawns, the spawn fails, the
\* command string cannot be split, the split is empty) and spawns at most
\* once; with id out of range it emits nothing and spawns nothing.
C11_CommandoActivateCloses ==
    (plugin = "commando" /\ lastReq.kind = "Activate") =>
        IF lastReq.id < Len(commands)
        THEN LET split == ShlexSplit(commands[lastReq.id + 1].command)
             IN  /\ resp = <<Close>>
                 /\ Len(Spawns(calls)) = (IF split.ok /\ split.words # <<>> THEN 1 ELSE 0)
        ELSE resp = <<>> /\ calls = <<>>

\* the command with the open quote was activated: Close, and nothing spawned
C11_Witness ==
    /\ plugin = "commando" /\ lastReq.kind = "Activate"
    /\ lastReq.id < Len(commands)
    /\ ~ShlexSplit(commands[lastReq.id + 1].command).ok
    /\ resp = <<Close>> /\ calls = <<>>

\* the loop reads a line of the given kinds while the bus stays as it is
LineStep(kinds) ==
    /\ session = "running"
    /\ live' = live
    /\ lastReq'.kind \in kinds

\* what a plugin holds between requests
PluginState == <<items, commands, projects>>

\* C12: a line that does not decode is dropped: the plugin's state is as
\* before, nothing is written and nothing is called, and the loop goes on
\* reading.  The next request therefore finds the state it would have found
\* had the line not been sent.
C12_MalformedLineDropped ==
    [][ LineStep({"Malformed"})
        => /\ PluginState' = PluginState
           /\ resp' = <<>> /\ calls' = <<>>
           /\ session' = "running" ]_vars

\* a malformed line arrived while the list held results
C12_Witness ==
    /\ lastReq.kind = "Malformed" /\ session = "running"
    /\ Len(items) >= 2 /\ resp = <<>>

\* C13: Context, ActivateContext, Interrupt, Exit and Quit write nothing, call
\* nothing and leave the plugin's list as it is, in every state they arrive
\* in, and the loop goes on reading afterwards: Exit and Quit do not end it.
C13_IgnoredVerbsAreNoOps ==
    [][ LineStep({"Context", "ActivateContext", "Interrupt", "Exit", "Quit"})
        => /\ PluginState' = PluginState
           /\ resp' = <<>> /\ calls' = <<>>
           /\ session' = "running" ]_vars

\* a Quit was read while the list held results, and the loop is still reading
C13_Witness ==
    /\ lastReq.kind = "Quit" /\ session = "running" /\ pending # 0
    /\ Len(items) >= 2 /\ resp = <<>>

\* the reserved prefix of the running plugin, where it has one
ReservedPrefix ==
    CASE plugin = "kicad" -> KICAD_PREFIX
      [] plugin = "rust" -> RustPrefixSp
      [] plugin = "notmuch" -> NOTMUCH_PREFIX
      [] plugin = "mpris" -> MprisPrefixSp
      [] OTHER -> <<>>

\* C14: in the kicad, rust-docs and notmuch plugins a Search whose query does
\* not start with the plugin's reserved prefix emits exactly Clear, Finished,
\* with no Append.
C14_MismatchClearsAndFinishes ==
    ( /\ plugin \in {"kicad", "rust", "notmuch"}
      /\ lastReq.kind = "Search"
      /\ ~StartsWith(lastReq.query, ReservedPrefix) )
    => resp = <<Clear, Finished>>

\* the list Activate indexes into, in the plugins that load it at start
Loaded == IF plugin = "commando" THEN commands ELSE projects

\* C15: in the command-list and kicad plugins the n-th Append of every search
\* pass carries id n-1, and the pass has as many Appends as the list that
\* Activate indexes into has entries.
C15_DenseIds ==
    ( /\ plugin \in {"commando", "kicad"}
      /\ lastReq.kind = "Search"
      /\ resp # <<>> /\ resp[1] = Clear )
    => LET sent == Appends(resp)
       IN  /\ Len(sent) = Len(Loaded)
           /\ \A n \in DOMAIN sent : sent[n].result.id = n - 1

\* C16: in the media-control plugin a search pass during which a collaborator
\* call failed (find_all, or find_by_name at any iteration of the action loop)
\* ends with Finished and holds no Append at all.
C16_FailedPassIsEmpty ==
    ( /\ plugin = "mpris" /\ lastReq.kind = "Search"
      /\ \E i \in DOMAIN calls : ~calls[i].ok )
    => /\ resp # <<>> /\ resp[Len(resp)] = Finished
       /\ Appends(resp) = <<>>

\* C17: once the loop is entered no request and no collaborator or file-system
\* outcome makes a handler abort the process; in the rust-docs plugin a Search
\* whose path exists but cannot be listed, or holds a file name that is not
\* valid UTF-8, still ends with Finished.
C17_NoHandlerAborts ==
    /\ session # "aborted"
    /\ (plugin = "rust" /\ lastReq.kind = "Search")
          => (resp # <<>> /\ resp[Len(resp)] = Finished)

\* C18: the loop handles every decoded request in arrival order and ends
\* exactly when the input ends: for every finite input stream it eventually
\* stops having handled all the lines, and no request stops it earlier.
C18_StopsWhenInputEnds == <>(session = "stopped" /\ pending = 0)

\* C19: in the media-control plugin Activate(id) on a bare-source item is seen
\* from outside as Complete(id) is: the responses are Fill, Clear, Appends,
\* Finished and the list is the one Complete(id) leaves for the same answers
\* of the collaborator; no play, pause or volume call is made and no Close is
\* sent.
C19_ActivatePlayerIsComplete ==
    [][ ( /\ plugin = "mpris" /\ RequestStep("Activate")
          /\ lastReq'.id < Len(items)
          /\ items[lastReq'.id + 1].kind = "Player" )
        => /\ \E env \in SearchOutcomes :
                 LET completed == MprisComplete(Fresh(items), lastReq'.id, env)
                 IN  /\ resp' = completed.resp
                     /\ items' = completed.items
                     /\ calls' = completed.calls
           /\ resp'[1].type = "Fill"
           /\ IsPass(Tail(resp'))
           /\ \A i \in DOMAIN resp' : resp'[i] # Close
           /\ \A i \in DOMAIN calls' : calls'[i].op \in {"find_all", "find_by_name"} ]_vars

\* a player was activated and its actions are now listed
C19_Witness ==
    /\ plugin = "mpris" /\ lastReq.kind = "Activate"
    /\ resp # <<>> /\ resp[1].type = "Fill"
    /\ Len(items) >= 2 /\ items[1].kind = "Action"

\* C20: in the media-control plugin a source is selected only when the query
\* remainder begins (an exact, case-sensitive prefix) with the identity of
\* exactly one live source; when it begins with the identities of two or more
\* live sources, or of none, no source is selected and the whole remainder
\* filters the sources by name.  An unselected pass is the one that asks for
\* the players a second time.
C20_SelectedOnlyWhenUnique ==
    ( /\ plugin = "mpris" /\ lastReq.kind = "Search"
      /\ StartsWith(lastReq.query, MediaSp) )
    => LET rest == StripPrefix(lastReq.query, MediaSp)
           begun == SelectSeq(calls[1].players, LAMBDA p : StartsWith(rest, Identity(p)))
           unselected == Len(calls) >= 2 /\ calls[2].op = "find_all"
       IN  /\ unselected <=> Len(begun) # 1
           /\ unselected =>
                 \A i \in DOMAIN items :
                     /\ items[i].kind = "Player"
                     /\ FuzzyMatches(Identity(items[i].player), rest)

\* C21: in the media-control plugin, after Activate(id) or Complete(id) on a
\* bare-source item of player P, the players on the bus being the same, every
\* item of the resulting list is an action of P itself, never an action of
\* another player and never a bare source, whatever the identities are, one
\* being a prefix of another included.  The request is one whose Fill names P.
C21_DrillDownScopedToPlayer ==
    \A p \in Players :
        ( /\ plugin = "mpris" /\ lastReq.kind \in {"Activate", "Complete"}
          /\ resp # <<>> /\ resp[1] = Fill(MediaSp \o Identity(p) \o <<" ">>) )
        => \A i \in DOMAIN items :
               items[i].kind = "Action" /\ items[i].player = p

\* C22: in the rust-docs and notmuch plugins the list is rebuilt from scratch
\* on every Search: when a Search has finished the list holds only what that
\* request appended, so after a Search without any Append (prefix mismatch, or
\* in notmuch a failed index query) every Activate(id) is a no-op.
C22_ListRebuiltOnEverySearch ==
    [][ (plugin \in {"rust", "notmuch"}) =>
          /\ (RequestStep("Search") => Len(items') = Len(Appends(resp')))
          /\ ( (lastReq.kind = "Search" /\ Appends(resp) = <<>> /\ RequestStep("Activate"))
               => (resp' = <<>> /\ calls' = <<>> /\ items' = items) ) ]_vars

\* the name sent for an entity of the rust-docs or notmuch list
EntityName(item) == IF plugin = "notmuch" THEN item.subject ELSE item.name

\* C23: in the rust-docs and notmuch plugins, after any sequence of requests
\* and at the end of every search pass, those that exit early included, the
\* list is as long as the Appends sent since the most recent Clear are many,
\* and the entity at index i is the one sent in the Append with id i.
C23_ListMirrorsAppendsSinceClear ==
    (plugin \in {"rust", "notmuch"}) =>
        /\ Len(items) = Len(shown)
        /\ \A n \in DOMAIN shown :
              /\ shown[n].id = n - 1
              /\ shown[n].name = EntityName(items[n])

\* a pass that exited early (no Clear, no Append) after a pass with results
C23_Witness ==
    /\ plugin \in {"rust", "notmuch"} /\ lastReq.kind = "Search"
    /\ resp = <<Finished>> /\ Len(items) >= 2

\* what the handler of a request does when every collaborator call and every
\* write succeeds
Undisturbed(req) ==
    CASE plugin = "mpris" /\ req.kind = "Search" ->
             MprisSearch(Fresh(items), req.query, NoFailure)
      [] plugin = "mpris" /\ req.kind = "Activate" ->
             MprisActivate(Fresh(items), req.id, NoFailure)
      [] plugin = "mpris" /\ req.kind = "Complete" ->
             MprisComplete(Fresh(items), req.id, NoFailure)
      [] plugin = "rust" /\ req.kind = "Search" ->
             RustSearch(Fresh(items), req.query, NoFailure)
      [] plugin = "rust" /\ req.kind = "Activate" ->
             RustActivate(Fresh(items), req.id, NoFailure)
      [] plugin = "commando" /\ req.kind = "Search" ->
             CommandoSearch(Fresh(items), commands, req.query)
      [] plugin = "commando" /\ req.kind = "Activate" ->
             CommandoActivate(Fresh(items), commands, req.id, NoFailure)
      [] plugin = "kicad" /\ req.kind = "Search" ->
             KicadSearch(Fresh(items), projects, req.query)
      [] plugin = "kicad" /\ req.kind = "Activate" ->
             KicadActivate(Fresh(items), projects, req.id, NoFailure)
      [] plugin = "notmuch" /\ req.kind = "Search" ->
             NotmuchSearch(Fresh(items), req.query, NoFailure)
      [] plugin = "notmuch" /\ req.kind = "Activate" ->
             NotmuchActivate(Fresh(items), req.id, NoFailure)
      [] OTHER -> Fresh(items)

\* C24: a write or flush that fails loses that one response only: the handler
\* goes on, every later response of the request is still handed to stdout,
\* and the handler leaves the plugin (in the media-control plugin, the list) as
\* it would have had every write succeeded; the next request is read as ever.
C24_WriteFailureLosesOneResponse ==
    [][ ( /\ session = "running" /\ live' = live
          /\ lastReq'.kind # "EndOfInput" /\ lost' # 0 )
        => LET st == Undisturbed(lastReq')
           IN  /\ resp' = st.resp
               /\ items' = st.items
               /\ calls' = st.calls
               /\ lost' \in DOMAIN resp'
               /\ session' = (IF st.panicked THEN "aborted" ELSE "running")
               /\ <<plugin, commands, projects>>' = <<plugin, commands, projects>> ]_vars

\* the write of the first Append of a media-control pass failed; the item is
\* in the list all the same and the pass went on to Finished
C24_Witness ==
    /\ plugin = "mpris" /\ lastReq.kind = "Search" /\ session = "running"
    /\ lost = 2 /\ resp[2].type = "Append"
    /\ Len(items) >= 2 /\ resp[Len(resp)] = Finished

\* C25: in the media-control plugin activating a Volume up or Volume down
\* result sends no response at all and leaves the list as it is, whether the
\* collaborator calls succeed or fail, so that the same id can be activated
\* again at once; each activation reads the volume once and, when that
\* succeeded, sets it once.
C25_VolumeActivationStaysOpen ==
    [][ ( /\ plugin = "mpris" /\ RequestStep("Activate")
          /\ lastReq'.id < Len(items)
          /\ items[lastReq'.id + 1].kind = "Action"
          /\ items[lastReq'.id + 1].action \in {"VolumeUp", "VolumeDown"} )
        => /\ resp' = <<>>
           /\ items' = items
           /\ calls' # <<>> /\ calls'[1].op = "get_volume"
           /\ calls'[1].player = items[lastReq'.id + 1].player
           /\ IF calls'[1].ok
              THEN Len(calls') = 2 /\ calls'[2].op = "set_volume"
              ELSE Len(calls') = 1 ]_vars

\* a Volume up went through and the list is still there to activate again
C25_Witness ==
    /\ plugin = "mpris" /\ lastReq.kind = "Activate"
    /\ lastReq.id < Len(items)
    /\ items[lastReq.id + 1].kind = "Action"
    /\ items[lastReq.id + 1].action = "VolumeUp"
    /\ Len(calls) = 2 /\ calls[2].op = "set_volume" /\ calls[2].ok
    /\ resp = <<>>

\* C26: activating a Volume down result sets the volume to max(0, current -
\* 0.1): whatever volume of 0 or more the player reports, the value passed to
\* set_volume is never negative.
C26_VolumeDownClamped ==
    ( /\ plugin = "mpris" /\ lastReq.kind = "Activate"
      /\ Len(calls) = 2 /\ calls[2].op = "set_volume"
      /\ items[lastReq.id + 1].action = "VolumeDown" )
    => /\ calls[2].volume
            = (IF calls[1].volume - VolumeStep < 0 THEN 0
               ELSE calls[1].volume - VolumeStep)
       /\ calls[2].volume >= 0

\* Volume down at a volume of 0.05: set_volume(0)
C26_Witness ==
    /\ plugin = "mpris" /\ lastReq.kind = "Activate"
    /\ Len(calls) = 2 /\ calls[2].op = "set_volume"
    /\ items[lastReq.id + 1].action = "VolumeDown"
    /\ calls[1].volume = 1 /\ calls[2].volume = 0

\* C27: in the media-control plugin every Search enumerates the players
\* anew: the items of a pass are of players on the bus during the pass, so a
\* player that has left since the Search before is not returned and one that
\* has started is, whatever the list held before; a Search for all players
\* ("media ") whose calls succeed returns exactly the players on the bus, in
\* bus order.  A pass past the prefix check begins by asking for the players.
C27_SearchReenumerates ==
    (plugin = "mpris" /\ lastReq.kind = "Search") =>
        /\ \A i \in DOMAIN items : \E j \in DOMAIN live : live[j] = items[i].player
        /\ StartsWith(lastReq.query, MediaSp)
              => (calls # <<>> /\ calls[1].op = "find_all")
        /\ (lastReq.query = MediaSp /\ AllOk(calls))
              => items = [j \in DOMAIN live |-> PlayerItem(live[j])]

\* the list held a player that has left; the Search for all players returned
\* the one player now running
C27_Witness ==
    /\ plugin = "mpris" /\ lastReq.kind = "Search" /\ lastReq.stale
    /\ lastReq.query = MediaSp /\ AllOk(calls)
    /\ live = <<2>> /\ items = <<PlayerItem(2)>>

\* what Activate(id) starts for the entry of the loaded list at index id
Launched(id) ==
    IF plugin = "kicad"
    THEN <<[program |-> "kicad", arg |-> projects[id + 1].path]>>
    ELSE LET split == ShlexSplit(commands[id + 1].command)
         IN  IF split.ok /\ split.words # <<>>
             THEN <<[program |-> Head(split.words), args |-> Tail(split.words)]>>
             ELSE <<>>

\* the spawns among calls, without their outcome
Started(cs) ==
    LET spawned == Spawns(cs)
    IN  [n \in DOMAIN spawned |->
           IF plugin = "kicad"
           THEN [program |-> spawned[n].program, arg |-> spawned[n].arg]
           ELSE [program |-> spawned[n].program, args |-> spawned[n].args]]

\* C28: in the command-list and kicad plugins the id of every Append is the
\* entity's index in the list loaded at start-up and the name sent with it is
\* that entity's; Activate(id) with id below the length of the loaded list
\* runs the entity at index id and answers Close, whether or not that entity
\* was in the latest search pass and whether or not a Search has been served.
C28_IdsIndexLoadedList ==
    (plugin \in {"commando", "kicad"}) =>
        /\ \A n \in DOMAIN shown :
              /\ shown[n].id < Len(Loaded)
              /\ shown[n].name = Loaded[shown[n].id + 1].name
        /\ lastReq.kind = "Search" =>
              \A n \in DOMAIN Appends(resp) :
                 LET result == Appends(resp)[n].result
                 IN  /\ result.id < Len(Loaded)
                     /\ result.name = Loaded[result.id + 1].name
        /\ (lastReq.kind = "Activate" /\ lastReq.id < Len(Loaded)) =>
              /\ resp = <<Close>>
              /\ Started(calls) = Launched(lastReq.id)

\* an entry that was not in the latest search pass has been run
C28_Witness ==
    /\ plugin \in {"commando", "kicad"}
    /\ lastReq.kind = "Activate" /\ lastReq.id < Len(Loaded)
    /\ shown # <<>> /\ \A n \in DOMAIN shown : shown[n].id # lastReq.id
    /\ Len(Started(calls)) = 1 /\ resp = <<Close>>

\* an entry has been run before any Search was served
C28_WitnessNoSearch ==
    /\ plugin \in {"commando", "kicad"}
    /\ lastReq.kind = "Activate" /\ lastReq.first /\ lastReq.id < Len(Loaded)
    /\ shown = <<>>
    /\ Len(Started(calls)) = 1 /\ resp = <<Close>>

\* the entries of the directory a rust-docs query names that its search term
\* matches, with their scores, in directory-listing order
RustMatching(query) ==
    LET segments == Split(StripPrefix(query, RustPrefixSp), <<":", ":">>)
        path == Join(SubSeq(segments, 1, Len(segments) - 1), <<"/">>)
    IN  Scored(EntriesOf(path, DocTree(path).entries), segments[Len(segments)])

\* a rust-docs search pass has come to its loop over the ranked entries
RustPassRanked ==
    /\ plugin = "rust" /\ lastReq.kind = "Search" /\ session = "running"
    /\ \E i \in DOMAIN calls : calls[i].op = "read_dir" /\ calls[i].ok

\* C29: a rust-docs search pass that is past the prefix and path checks sends
\* at most 10 Appends, with ids 0..k-1 in the order sent; they are in order of
\* descending fuzzy score, entries of equal score in directory-listing order,
\* and no matching entry left out would rank before one that was sent (so
\* they are the 10 best when more than 10 entries match).
C29_TenBestByScore ==
    RustPassRanked =>
        LET all == RustMatching(lastReq.query)
            sent == Appends(resp)
            k == Len(sent)
            pos(n) == CHOOSE i \in DOMAIN all : all[i].entry = items[n]
            Before(i, j) == \/ all[i].score > all[j].score
                            \/ all[i].score = all[j].score /\ i < j
        IN  /\ k <= 10
            /\ k = IF Len(all) < 10 THEN Len(all) ELSE 10
            /\ Len(items) = k
            /\ \A n \in 1..k :
                  /\ sent[n].result.id = n - 1
                  /\ \E i \in DOMAIN all : all[i].entry = items[n]
                  /\ sent[n].result.name = items[n].name
            /\ \A n, m \in 1..k : n < m => Before(pos(n), pos(m))
            /\ \A i \in DOMAIN all :
                  (\A n \in 1..k : pos(n) # i)
                     => \A n \in 1..k : Before(pos(n), i)

\* more than 10 entries matched; an entry sent was listed after one left out,
\* and two entries sent in listing order reversed differ in score
C29_Witness ==
    /\ RustPassRanked
    /\ LET all == RustMatching(lastReq.query)
           pos(n) == CHOOSE i \in DOMAIN all : all[i].entry = items[n]
       IN  /\ Len(all) > 10 /\ Len(Appends(resp)) = 10
           /\ \E i \in DOMAIN all, n \in DOMAIN items :
                 i < pos(n) /\ \A m \in DOMAIN items : pos(m) # i
           /\ \E n, m \in DOMAIN items : n < m /\ pos(n) > pos(m)
           /\ \E n, m \in DOMAIN items : n < m /\ all[pos(n)].score = all[pos(m)].score

====
